---- MODULE Spec2Model ----
(***************************************************************************)
(* PrepWise backend: the interview-session lifecycle, the answer ledger    *)
(* and the result compiler, as the Express handlers run them against the   *)
(* MongoDB collections Interview, Answer and FinalResult.                  *)
(*                                                                         *)
(* Every handler is an async function: between two awaits on the store     *)
(* other requests run.  A request is therefore modelled as a sequence of   *)
(* steps, one per store operation, each step taking with it the            *)
(* synchronous code that follows the operation up to the next one.  Calls  *)
(* to the text collaborator touch no shared state and are taken together   *)
(* with the store operation that follows them.                             *)
(***************************************************************************)
EXTENDS Integers, Sequences, FiniteSets, Bags, TLC

(***************************************************************************)
(* Bounds of the model.                                                    *)
(***************************************************************************)
MaxSlots == 2        \* requests in flight at the same time
MaxClock == 3        \* the clock stops after this many ticks
MaxBatch == 2        \* answers in one submit-all request
MaxQuestionInput == 2 \* question numbers 1..MaxQuestionInput are submitted
MaxEntries == 3      \* entries in one list given to the behavioral aggregator
MaxNumber == 4       \* question numbers 0..MaxNumber in a collaborator's list

(***************************************************************************)
(* Program constants.                                                      *)
(***************************************************************************)
NULL == -1                 \* a Date field holding null
MsPerTick == 500           \* one tick of the model's clock, in milliseconds
MsPerSecond == 1000
NumberOfQuestions == 3     \* interview.numberOfQuestions (its minimum)
MinAnswerLength == 10
MaxAnswerLength == 5000
ShortAnswerLength == 20
UnrelatedAnswerLength == 50

Slots == 1..MaxSlots
Owner == "u1"
Users == {"u1", "u2"}

\* interview.questions: the question numbers the stored session declares
Questions == 1..NumberOfQuestions

(***************************************************************************)
(* Inputs.  A text is known by what the code looks at: its trimmed length, *)
(* whether a gibberish pattern matches it and whether it shares a word     *)
(* with the question.                                                      *)
(***************************************************************************)
NoText == [len |-> 0, gibberish |-> FALSE, related |-> FALSE]
TextOk == [len |-> 2, gibberish |-> TRUE, related |-> FALSE]
TextBrief == [len |-> 15, gibberish |-> FALSE, related |-> TRUE]
TextLong == [len |-> 80, gibberish |-> FALSE, related |-> TRUE]
TextGibberish == [len |-> 12, gibberish |-> TRUE, related |-> FALSE]
TextUnrelated == [len |-> 15, gibberish |-> FALSE, related |-> FALSE]
TextInputs == {TextOk, TextLong}
WideTextInputs == {TextOk, TextBrief, TextGibberish, TextUnrelated, TextLong}
QuestionInputs == (1..MaxQuestionInput) \cup {NumberOfQuestions + 1}
BatchTextInputs == {TextOk, TextLong}
BatchInputs ==
  UNION {[1..n -> QuestionInputs] : n \in 1..MaxBatch}

\* reports of the final-result collaborator at and around every step of the
\* grade ladder, with category scores that do and do not weigh up to them
FinalScoreInputs == {59, 60, 69, 70, 74, 75, 79, 80, 85, 90, 94, 95, 100, 150}
CategoryScoreInputs ==
  {<<80, 70, 75, 60, 65>>, <<74, 74, 74, 74, 74>>, <<80, 70, 75, 60, 101>>}

\* what the text collaborator answers to an evaluation request
\* ok: a JSON object with every required field was parsed from the reply;
\* typed: the JSON type of its four sub-scores
GeminiReply(ok, typed, r, c, t, m, o) ==
  [ok |-> ok, typed |-> typed, relevance |-> r, completeness |-> c,
   technicalAccuracy |-> t, communication |-> m, overallScore |-> o]
GeminiError == GeminiReply(FALSE, "number", 0, 0, 0, 0, 0)
GeminiGood == GeminiReply(TRUE, "number", 90, 85, 88, 82, 50)
EvaluationResponses == {GeminiError, GeminiGood}

\* replies with a sub-score out of range, and with the sub-scores as JSON
\* strings ("90") instead of numbers
GeminiHigh == GeminiReply(TRUE, "number", 90, 85, 101, 82, 86)
GeminiNegative == GeminiReply(TRUE, "number", -1, 85, 88, 82, 64)
GeminiStrings == GeminiReply(TRUE, "string", 90, 85, 88, 82, 86)
GeminiLow == GeminiReply(TRUE, "number", 35, 20, 10, 30, 90)
GeminiHalf == GeminiReply(TRUE, "number", 90, 85, 88, 83, 0)
GeminiTop == GeminiReply(TRUE, "number", 100, 100, 100, 100, 0)
FailingEvaluationResponses ==
  {GeminiError, GeminiHigh, GeminiNegative, GeminiStrings}
WellFormedEvaluationResponses == {GeminiGood, GeminiLow, GeminiHalf, GeminiTop}
WideEvaluationResponses ==
  FailingEvaluationResponses \cup WellFormedEvaluationResponses

\* what the text collaborator answers to a final-result request: an error,
\* or a report with the overallScore and the categoryScores it chose (in the
\* order technicalKnowledge, communication, problemSolving, confidence,
\* facialAnalysis)
FinalReport(ok, overallScore, categoryScores) ==
  [ok |-> ok, overallScore |-> overallScore, categoryScores |-> categoryScores]
FinalError == FinalReport(FALSE, 0, <<0, 0, 0, 0, 0>>)
FinalResponses ==
  {FinalError, FinalReport(TRUE, 74, <<80, 70, 75, 60, 65>>),
   FinalReport(TRUE, 150, <<80, 70, 75, 60, 65>>)}

VARIABLES
  interview,     \* the stored Interview document
  answers,       \* the Answer collection, a bag of documents
  finalResults,  \* the FinalResult collection, a bag of documents
  reqs,          \* per slot: the request in flight
  response,      \* the response sent last: the operation and its outcome
  now,           \* the clock new Date() reads
  facial,        \* a call of the behavioral aggregator: its input and result
  gate,          \* a call of evaluateAnswer: its inputs and what it did
  drafted        \* a call of POST /api/interviews/generate: the questions stored

vars == <<interview, answers, finalResults, reqs, response, now, facial, gate, drafted>>

(***************************************************************************)
(* Requests.  A slot holds a request in flight: pc says which store        *)
(* operation it waits for, the other fields are the handler's locals.      *)
(***************************************************************************)
NoUpdate == [status |-> "none", startedAt |-> NULL, completedAt |-> NULL,
             duration |-> 0, durationModified |-> FALSE]

Idle == [op |-> "none", pc |-> "idle", user |-> "none", qn |-> 0,
         text |-> NoText, batch |-> <<>>, status |-> "none",
         update |-> NoUpdate, count |-> 0, tasks |-> <<>>]

\* no call of the aggregator
NoSummary == [kind |-> "none", confidence |-> 0, eyeContact |-> 0,
              speechClarity |-> 0, overallScore |-> 0, analysisCount |-> 0]
NoFacial == [results |-> <<>>, summary |-> NoSummary]

\* no call of POST /api/interviews/generate
NoDraft == [numberOfQuestions |-> 0, ok |-> FALSE, numbers |-> <<>>,
            state |-> "none", questions |-> <<>>]

\* no call of evaluateAnswer
NoGate == [text |-> NoText, reply |-> GeminiError, state |-> "none",
           called |-> FALSE,
           evaluation |-> [relevance |-> 0, completeness |-> 0,
                           technicalAccuracy |-> 0, communication |-> 0,
                           overallScore |-> 0]]

InFlight(r) == reqs[r].pc # "idle"

\* res.status(...).json(...): the request in slot r ends with this response
Respond(r, op, code) ==
  /\ reqs' = [reqs EXCEPT ![r] = Idle]
  /\ response' = [op |-> op, code |-> code]

\* the handler in slot r goes on to its next store operation
Await(r, request) ==
  /\ reqs' = [reqs EXCEPT ![r] = request]
  /\ response' = response

\* the collection holds no Interview document any more: DELETE
\* /api/interviews/:id has removed it
NoInterview == [status |-> "absent", startedAt |-> NULL, completedAt |-> NULL,
                duration |-> 0]

\* a lookup by _id alone, which finds the document for any user
FindInterviewOfAnyUser(user) == interview # NoInterview

\* Interview.findOne({ _id: id, userId }): the document, for its owner only
FindInterview(user) == user = Owner /\ interview # NoInterview

Init ==
  /\ interview = [status |-> "generated", startedAt |-> NULL,
                  completedAt |-> NULL, duration |-> 0]
  /\ answers = EmptyBag
  /\ finalResults = EmptyBag
  /\ reqs = [r \in Slots |-> Idle]
  /\ response = [op |-> "none", code |-> "none"]
  /\ now = 0
  /\ facial = NoFacial
  /\ gate = NoGate
  /\ drafted = NoDraft

\* time passes
Tick ==
  /\ now < MaxClock
  /\ now' = now + 1
  /\ UNCHANGED <<interview, answers, finalResults, reqs, response, facial, gate, drafted>>

(***************************************************************************)
(* POST /api/interviews/:id/start                                          *)
(***************************************************************************)
\* a guard that refuses only a completed session
StartAllowedUnlessCompleted(status) == status # "completed"

\* the guard of the start handler
StartAllowed(status) == status = "generated"

\* a start handler that stamps the start time before it checks the status
StartSessionStampingFirst(r, user) ==
  /\ ~InFlight(r)
  /\ IF ~FindInterview(user)
       THEN /\ interview' = interview
            /\ Respond(r, "start", "NotFound404")
     ELSE IF ~StartAllowed(interview.status)
       THEN /\ interview' = [interview EXCEPT !.startedAt = now]
            /\ Respond(r, "start", "StateError400")
     ELSE /\ interview' = interview
          /\ Await(r, [Idle EXCEPT !.op = "start", !.pc = "save",
                         !.user = user, !.status = interview.status,
                         !.update = [NoUpdate EXCEPT !.status = "in_progress",
                                                     !.startedAt = now]])
  /\ UNCHANGED <<answers, finalResults, now, facial, gate, drafted>>

\* findOne, the status check, and startInterview() up to its save()
StartSession(r, user) ==
  /\ ~InFlight(r)
  /\ IF ~FindInterview(user) THEN Respond(r, "start", "NotFound404")
     ELSE IF ~StartAllowed(interview.status)
       THEN Respond(r, "start", "StateError400")
     ELSE Await(r, [Idle EXCEPT !.op = "start", !.pc = "save", !.user = user,
                      !.status = interview.status,
                      !.update = [NoUpdate EXCEPT !.status = "in_progress",
                                                  !.startedAt = now]])
  /\ UNCHANGED <<interview, answers, finalResults, now, facial, gate, drafted>>

\* save() of startInterview: $set of the modified paths status and startedAt
StartSave(r) ==
  /\ reqs[r].op = "start" /\ reqs[r].pc = "save"
  /\ interview' = [interview EXCEPT !.status = reqs[r].update.status,
                                    !.startedAt = reqs[r].update.startedAt]
  /\ Respond(r, "start", "OK200")
  /\ UNCHANGED <<answers, finalResults, now, facial, gate, drafted>>

(***************************************************************************)
(* POST /api/interviews/:id/complete                                       *)
(***************************************************************************)
\* the guard of the complete handler
CompleteAllowed(status) == status = "in_progress"

\* the duration rounded to the nearest second instead of cut to whole seconds
DurationRounded(startedAt, completedAt) ==
  (2 * (completedAt - startedAt) * MsPerTick + MsPerSecond)
    \div (2 * MsPerSecond)

\* Math.floor((completedAt - startedAt) / 1000), the dates in ticks
DurationSeconds(startedAt, completedAt) ==
  ((completedAt - startedAt) * MsPerTick) \div MsPerSecond

\* completeInterview() up to its save(): the fields it sets on the document
\* read; duration is set only when startedAt is not null, and a path set to
\* the value it already has is not modified and so not written
CompleteUpdate(doc, time) ==
  LET d == IF doc.startedAt # NULL THEN DurationSeconds(doc.startedAt, time)
           ELSE doc.duration
  IN [NoUpdate EXCEPT !.status = "completed", !.completedAt = time,
                      !.duration = d, !.durationModified = (d # doc.duration)]

\* findOne, the status check, and completeInterview() up to its save()
CompleteSession(r, user) ==
  /\ ~InFlight(r)
  /\ IF ~FindInterview(user) THEN Respond(r, "complete", "NotFound404")
     ELSE IF ~CompleteAllowed(interview.status)
       THEN Respond(r, "complete", "StateError400")
     ELSE Await(r, [Idle EXCEPT !.op = "complete", !.pc = "save",
                      !.user = user, !.status = interview.status,
                      !.update = CompleteUpdate(interview, now)])
  /\ UNCHANGED <<interview, answers, finalResults, now, facial, gate, drafted>>

\* save() of completeInterview: $set of the modified paths
CompleteSave(r) ==
  /\ reqs[r].op = "complete" /\ reqs[r].pc = "save"
  /\ interview' = [interview EXCEPT
       !.status = reqs[r].update.status,
       !.completedAt = reqs[r].update.completedAt,
       !.duration = IF reqs[r].update.durationModified
                    THEN reqs[r].update.duration ELSE @]
  /\ Respond(r, "complete", "OK200")
  /\ UNCHANGED <<answers, finalResults, now, facial, gate, drafted>>

(***************************************************************************)
(* evaluateAnswer and the quality gate in front of it                      *)
(***************************************************************************)
Max(a, b) == IF a >= b THEN a ELSE b
Min(a, b) == IF a <= b THEN a ELSE b

\* Math.round(n / d) for n >= 0, d > 0
RoundDiv(n, d) == (2 * n + d) \div (2 * d)

\* a gate that looks for gibberish before it looks at the length
preValidateAnswerGibberishFirst(text) ==
  IF text.gibberish THEN 8
  ELSE IF text.len < MinAnswerLength THEN 5
  ELSE IF ~text.related /\ text.len < UnrelatedAnswerLength THEN 12
  ELSE 0

\* preValidateAnswer: the score of the first check that fires, 0 when none does
preValidateAnswer(text) ==
  IF text.len < MinAnswerLength THEN 5
  ELSE IF text.gibberish THEN 8
  ELSE IF ~text.related /\ text.len < UnrelatedAnswerLength THEN 12
  ELSE 0

Evaluation(r, c, t, m, o) ==
  [relevance |-> r, completeness |-> c, technicalAccuracy |-> t,
   communication |-> m, overallScore |-> o]

getFallbackEvaluation == Evaluation(30, 25, 20, 35, 28)

InRange(score) == score >= 0 /\ score <= 100

\* a + b of JavaScript for a the text of a number and b a string of digits
\* in 0..100: the digits of b appended to those of a
AppendDigits(a, b) ==
  a * (IF b < 10 THEN 10 ELSE IF b < 100 THEN 100 ELSE 1000) + b

\* scores.reduce((a, b) => a + b, 0): numbers are added; with strings the sum
\* is the text "0" with every score appended, read as a number by the division
SumOfScores(typed, q) ==
  IF typed = "string"
    THEN AppendDigits(AppendDigits(AppendDigits(AppendDigits(0, q[1]), q[2]),
                                   q[3]), q[4])
  ELSE q[1] + q[2] + q[3] + q[4]

\* an evaluation that keeps the overall score the collaborator reported
evaluateAnswerTrusting(text, reply) ==
  LET band == preValidateAnswer(text)
      scores == <<reply.relevance, reply.completeness,
                  reply.technicalAccuracy, reply.communication>>
      capped == <<Min(scores[1], 40), Min(scores[2], 30),
                  Min(scores[3], 25), Min(scores[4], 35)>>
  IN IF band # 0
       THEN Evaluation(band, Max(0, band - 5), Max(0, band - 8),
                       Max(0, band + 5), band)
     ELSE IF ~reply.ok \/ \E i \in 1..4 : ~InRange(scores[i])
       THEN getFallbackEvaluation
     ELSE IF text.len < ShortAnswerLength
       THEN Evaluation(capped[1], capped[2], capped[3], capped[4],
                       reply.overallScore)
     ELSE Evaluation(scores[1], scores[2], scores[3], scores[4],
                     reply.overallScore)

\* an evaluation without the caps for a short answer
evaluateAnswerUncapped(text, reply) ==
  LET band == preValidateAnswer(text)
      scores == <<reply.relevance, reply.completeness,
                  reply.technicalAccuracy, reply.communication>>
  IN IF band # 0
       THEN Evaluation(band, Max(0, band - 5), Max(0, band - 8),
                       Max(0, band + 5), band)
     ELSE IF ~reply.ok \/ \E i \in 1..4 : ~InRange(scores[i])
       THEN getFallbackEvaluation
     ELSE Evaluation(scores[1], scores[2], scores[3], scores[4],
                     RoundDiv(SumOfScores(reply.typed, scores), 4))

\* evaluateAnswer: text is the answer, reply what the collaborator returns.
\* The range check compares with < and >, which read a string of digits as
\* its number; Math.min does the same, so capped scores are numbers
evaluateAnswer(text, reply) ==
  LET band == preValidateAnswer(text)
      scores == <<reply.relevance, reply.completeness,
                  reply.technicalAccuracy, reply.communication>>
      capped == <<Min(scores[1], 40), Min(scores[2], 30),
                  Min(scores[3], 25), Min(scores[4], 35)>>
  IN IF band # 0
       THEN Evaluation(band, Max(0, band - 5), Max(0, band - 8),
                       Max(0, band + 5), band)
     ELSE IF ~reply.ok \/ \E i \in 1..4 : ~InRange(scores[i])
       THEN getFallbackEvaluation
     ELSE IF text.len < ShortAnswerLength
       THEN Evaluation(capped[1], capped[2], capped[3], capped[4],
                       RoundDiv(SumOfScores("number", capped), 4))
     ELSE Evaluation(scores[1], scores[2], scores[3], scores[4],
                     RoundDiv(SumOfScores(reply.typed, scores), 4))

\* evaluateAnswer goes on to model.generateContent when the gate lets the
\* text through
CallsGemini(text) == preValidateAnswer(text) = 0

\* texts on both sides of every check of the gate, some matching several
GateTexts ==
  {TextOk, TextBrief, TextGibberish, TextUnrelated, TextLong,
   [len |-> 9, gibberish |-> FALSE, related |-> TRUE],
   [len |-> 10, gibberish |-> FALSE, related |-> TRUE],
   [len |-> 60, gibberish |-> TRUE, related |-> TRUE],
   [len |-> 49, gibberish |-> FALSE, related |-> FALSE],
   [len |-> 50, gibberish |-> FALSE, related |-> FALSE]}

\* a call of evaluateAnswer on the text and with the reply drawn
CallEvaluateAnswer ==
  /\ gate.state = "ready"
  /\ gate' = [gate EXCEPT !.state = "done",
                          !.called = CallsGemini(gate.text),
                          !.evaluation = evaluateAnswer(gate.text, gate.reply)]
  /\ UNCHANGED <<interview, answers, finalResults, reqs, response, now,
                 facial, drafted>>

InitGate ==
  /\ interview = [status |-> "generated", startedAt |-> NULL,
                  completedAt |-> NULL, duration |-> 0]
  /\ answers = EmptyBag
  /\ finalResults = EmptyBag
  /\ reqs = [r \in Slots |-> Idle]
  /\ response = [op |-> "none", code |-> "none"]
  /\ now = 0
  /\ facial = NoFacial
  /\ gate \in {[NoGate EXCEPT !.text = text, !.reply = reply,
                               !.state = "ready"] :
                 text \in GateTexts, reply \in WideEvaluationResponses}
  /\ drafted = NoDraft

SpecGate == InitGate /\ [][CallEvaluateAnswer]_vars

\* answerSchema: min 0 / max 100 on the five scores of aiEvaluation
ValidEvaluation(evaluation) ==
  /\ InRange(evaluation.relevance) /\ InRange(evaluation.completeness)
  /\ InRange(evaluation.technicalAccuracy)
  /\ InRange(evaluation.communication) /\ InRange(evaluation.overallScore)

(***************************************************************************)
(* The Answer collection                                                   *)
(***************************************************************************)
\* body("answerText").trim().isLength({ min: 10, max: 5000 })
ValidAnswerText(text) ==
  text.len >= MinAnswerLength /\ text.len <= MaxAnswerLength

AnswerDoc(user, qn, text, evaluation) ==
  [userId |-> user, questionNumber |-> qn, answerText |-> text,
   aiEvaluation |-> evaluation]

\* the collection holds a document for (interview, user, question number)
HasAnswer(user, qn) ==
  \E a \in BagToSet(answers) : a.userId = user /\ a.questionNumber = qn

\* an existence check that never finds a document
AnswerExistsNever(user, qn) == FALSE

\* Answer.findOne({ interviewId, userId, questionNumber }) finds a document
AnswerExists(user, qn) == HasAnswer(user, qn)

\* a collection without the unique index: no insert is refused
AnswerKeyNeverTaken(user, qn) == FALSE

\* the unique index { interviewId, userId, questionNumber } refuses the insert
AnswerKeyTaken(user, qn) == HasAnswer(user, qn)

\* interview.questions.find((q) => q.questionNumber === parseInt(questionNumber))
FindQuestion(qn) == qn \in Questions

\* the guard of the handlers that accept answers
SubmitAllowed(status) == status = "in_progress"

(***************************************************************************)
(* POST /api/answers                                                       *)
(***************************************************************************)
\* request validation, findOne and the checks up to Answer.findOne
SubmitAnswer(r, user, qn, text) ==
  /\ ~InFlight(r)
  /\ IF ~ValidAnswerText(text) THEN Respond(r, "submit", "Validation400")
     ELSE IF ~FindInterview(user) THEN Respond(r, "submit", "NotFound404")
     ELSE IF ~SubmitAllowed(interview.status)
       THEN Respond(r, "submit", "StateError400")
     ELSE IF qn > NumberOfQuestions
       THEN Respond(r, "submit", "InvalidQuestion400")
     ELSE IF ~FindQuestion(qn)
       THEN Respond(r, "submit", "QuestionNotFound400")
     ELSE Await(r, [Idle EXCEPT !.op = "submit", !.pc = "exists",
                      !.user = user, !.qn = qn, !.text = text,
                      !.status = interview.status])
  /\ UNCHANGED <<interview, answers, finalResults, now, facial, gate, drafted>>

\* Answer.findOne and the check of its result
SubmitExists(r) ==
  /\ reqs[r].op = "submit" /\ reqs[r].pc = "exists"
  /\ IF AnswerExists(reqs[r].user, reqs[r].qn)
       THEN Respond(r, "submit", "Duplicate400")
     ELSE Await(r, [reqs[r] EXCEPT !.pc = "create"])
  /\ UNCHANGED <<interview, answers, finalResults, now, facial, gate, drafted>>

\* evaluateAnswer with the collaborator answering reply, then Answer.create;
\* an error of either is caught (500)
SubmitCreateWith(r, reply) ==
  /\ reqs[r].op = "submit" /\ reqs[r].pc = "create"
  /\ LET doc == AnswerDoc(reqs[r].user, reqs[r].qn, reqs[r].text,
                          evaluateAnswer(reqs[r].text, reply))
     IN IF ~ValidEvaluation(doc.aiEvaluation)
            \/ AnswerKeyTaken(reqs[r].user, reqs[r].qn)
          THEN /\ answers' = answers
               /\ Respond(r, "submit", "Failed500")
        ELSE /\ answers' = answers (+) SetToBag({doc})
             /\ Respond(r, "submit", "Created201")
  /\ UNCHANGED <<interview, finalResults, now, facial, gate, drafted>>

SubmitCreate(r) ==
  \E reply \in EvaluationResponses : SubmitCreateWith(r, reply)

(***************************************************************************)
(* POST /api/answers/submit-all                                            *)
(***************************************************************************)
\* the loop's synchronous head for the answers left: the question lookup
SubmitAllNext(r, user, rest, text, status) ==
  IF rest = <<>> THEN Respond(r, "submitAll", "Created201")
  ELSE IF ~FindQuestion(Head(rest))
    THEN Respond(r, "submitAll", "QuestionNotFound500")
  ELSE Await(r, [Idle EXCEPT !.op = "submitAll", !.pc = "exists",
                   !.user = user, !.batch = rest, !.text = text,
                   !.status = status])

\* request validation, findOne, the status check, the first question lookup
SubmitAll(r, user, batch, text) ==
  /\ ~InFlight(r)
  /\ IF ~ValidAnswerText(text) THEN Respond(r, "submitAll", "Validation400")
     ELSE IF ~FindInterview(user) THEN Respond(r, "submitAll", "NotFound404")
     ELSE IF ~SubmitAllowed(interview.status)
       THEN Respond(r, "submitAll", "StateError400")
     ELSE SubmitAllNext(r, user, batch, text, interview.status)
  /\ UNCHANGED <<interview, answers, finalResults, now, facial, gate, drafted>>

\* Answer.findOne for the current answer of the batch
SubmitAllExists(r) ==
  /\ reqs[r].op = "submitAll" /\ reqs[r].pc = "exists"
  /\ IF AnswerExists(reqs[r].user, Head(reqs[r].batch))
       THEN Respond(r, "submitAll", "AlreadyExists500")
     ELSE Await(r, [reqs[r] EXCEPT !.pc = "create"])
  /\ UNCHANGED <<interview, answers, finalResults, now, facial, gate, drafted>>

\* evaluateAnswer and Answer.create for the current answer, then the next one
SubmitAllCreate(r) ==
  /\ reqs[r].op = "submitAll" /\ reqs[r].pc = "create"
  /\ \E reply \in EvaluationResponses :
       LET qn == Head(reqs[r].batch)
           doc == AnswerDoc(reqs[r].user, qn, reqs[r].text,
                            evaluateAnswer(reqs[r].text, reply))
       IN IF ~ValidEvaluation(doc.aiEvaluation)
            THEN /\ answers' = answers
                 /\ Respond(r, "submitAll", "Validation500")
          ELSE IF AnswerKeyTaken(reqs[r].user, qn)
            THEN /\ answers' = answers
                 /\ Respond(r, "submitAll", "DuplicateKey500")
          ELSE /\ answers' = answers (+) SetToBag({doc})
               /\ SubmitAllNext(r, reqs[r].user, Tail(reqs[r].batch),
                                reqs[r].text, reqs[r].status)
  /\ UNCHANGED <<interview, finalResults, now, facial, gate, drafted>>

(***************************************************************************)
(* POST /api/answers/bulk                                                  *)
(* answers.map(async ...) starts one task per answer of the batch, all at  *)
(* once; Promise.all answers at the first task that throws, or when all    *)
(* have created their answer.  A task is at "exists" (Answer.findOne),     *)
(* "create" (evaluateAnswer, Answer.create), "done", or has thrown.        *)
(***************************************************************************)
TaskRunning(task) == task.pc \in {"exists", "create"}
TaskThrown(task) == task.pc \in {"notFound", "duplicate", "failed"}

\* the synchronous head of every callback of the map: the question lookup
BulkTasks(batch) ==
  [i \in 1..Len(batch) |->
     [qn |-> batch[i],
      pc |-> IF FindQuestion(batch[i]) THEN "exists" ELSE "notFound"]]

\* the handler after a step of its tasks: the catch answers 500 at the
\* first task that has thrown, the tasks still running go on without it
BulkAfter(r, request, tasks) ==
  LET running == \E i \in DOMAIN tasks : TaskRunning(tasks[i])
      thrown == \E i \in DOMAIN tasks : TaskThrown(tasks[i])
  IN IF request.pc = "all" /\ thrown
       THEN /\ response' = [op |-> "bulk", code |-> "Failed500"]
            /\ reqs' = [reqs EXCEPT ![r] =
                 IF running
                   THEN [request EXCEPT !.pc = "detached", !.tasks = tasks]
                 ELSE Idle]
     ELSE IF request.pc = "all" /\ ~running
       THEN Respond(r, "bulk", "Created201")
     ELSE IF ~running
       THEN /\ reqs' = [reqs EXCEPT ![r] = Idle]
            /\ response' = response
     ELSE Await(r, [request EXCEPT !.tasks = tasks])

\* request validation, findOne, the status check, and the map
Bulk(r, user, batch, text) ==
  /\ ~InFlight(r)
  /\ IF ~ValidAnswerText(text) THEN Respond(r, "bulk", "Validation400")
     ELSE IF ~FindInterview(user) THEN Respond(r, "bulk", "NotFound404")
     ELSE IF ~SubmitAllowed(interview.status)
       THEN Respond(r, "bulk", "StateError400")
     ELSE BulkAfter(r, [Idle EXCEPT !.op = "bulk", !.pc = "all",
                          !.user = user, !.text = text,
                          !.status = interview.status],
                    BulkTasks(batch))
  /\ UNCHANGED <<interview, answers, finalResults, now, facial, gate, drafted>>

\* Answer.findOne of the task at position i, and the check of its result
BulkExists(r, i) ==
  /\ reqs[r].op = "bulk" /\ i \in DOMAIN reqs[r].tasks
  /\ reqs[r].tasks[i].pc = "exists"
  /\ BulkAfter(r, reqs[r],
       [reqs[r].tasks EXCEPT ![i].pc =
          IF AnswerExists(reqs[r].user, reqs[r].tasks[i].qn)
            THEN "duplicate" ELSE "create"])
  /\ UNCHANGED <<interview, answers, finalResults, now, facial, gate, drafted>>

\* evaluateAnswer and Answer.create of the task at position i
BulkCreate(r, i) ==
  /\ reqs[r].op = "bulk" /\ i \in DOMAIN reqs[r].tasks
  /\ reqs[r].tasks[i].pc = "create"
  /\ \E reply \in EvaluationResponses :
       LET qn == reqs[r].tasks[i].qn
           doc == AnswerDoc(reqs[r].user, qn, reqs[r].text,
                            evaluateAnswer(reqs[r].text, reply))
       IN IF ~ValidEvaluation(doc.aiEvaluation)
            THEN /\ answers' = answers
                 /\ BulkAfter(r, reqs[r],
                      [reqs[r].tasks EXCEPT ![i].pc = "failed"])
          ELSE IF AnswerKeyTaken(reqs[r].user, qn)
            THEN /\ answers' = answers
                 /\ BulkAfter(r, reqs[r],
                      [reqs[r].tasks EXCEPT ![i].pc = "duplicate"])
          ELSE /\ answers' = answers (+) SetToBag({doc})
               /\ BulkAfter(r, reqs[r],
                    [reqs[r].tasks EXCEPT ![i].pc = "done"])
  /\ UNCHANGED <<interview, finalResults, now, facial, gate, drafted>>

(***************************************************************************)
(* The FinalResult collection                                              *)
(***************************************************************************)
\* a ladder whose steps begin just above their marks
GradeAbove(overallScore) ==
  IF overallScore > 95 THEN "A+"
  ELSE IF overallScore > 90 THEN "A"
  ELSE IF overallScore > 85 THEN "B+"
  ELSE IF overallScore > 80 THEN "B"
  ELSE IF overallScore > 75 THEN "C+"
  ELSE IF overallScore > 70 THEN "C"
  ELSE IF overallScore > 60 THEN "D"
  ELSE "F"

\* finalResultSchema.pre("save"): the grade of an overall score
Grade(overallScore) ==
  IF overallScore >= 95 THEN "A+"
  ELSE IF overallScore >= 90 THEN "A"
  ELSE IF overallScore >= 85 THEN "B+"
  ELSE IF overallScore >= 80 THEN "B"
  ELSE IF overallScore >= 75 THEN "C+"
  ELSE IF overallScore >= 70 THEN "C"
  ELSE IF overallScore >= 60 THEN "D"
  ELSE "F"

\* finalResultSchema.pre("save"): passed
Passed(overallScore) == overallScore >= 70

\* getFallbackFinalResult: Math.round(Math.max(20, Math.min(45, rate * 0.4)))
\* with rate = answered / total * 100
FallbackOverallScore(answered, total) ==
  Max(20, Min(45, RoundDiv(40 * answered, total)))

\* getFallbackFinalResult: Math.round(baseScore * 0.8), ... * 0.9, * 0.7,
\* * 0.6, * 0.5, with baseScore = max(20, min(45, rate * 0.4)) kept exact as
\* the fraction base / total
FallbackCategoryScores(answered, total) ==
  LET base == Max(20 * total, Min(45 * total, 40 * answered))
  IN <<RoundDiv(8 * base, 10 * total), RoundDiv(9 * base, 10 * total),
       RoundDiv(7 * base, 10 * total), RoundDiv(6 * base, 10 * total),
       RoundDiv(5 * base, 10 * total)>>

getFallbackFinalResult(answered, total) ==
  FinalReport(TRUE, FallbackOverallScore(answered, total),
              FallbackCategoryScores(answered, total))

\* generateFinalResult: the collaborator's report, or the fallback on an error
generateFinalResult(reply, answered, total) ==
  IF reply.ok THEN reply
  ELSE getFallbackFinalResult(answered, total)

\* the schema's min 0 / max 100 on overallScore and on every category score
ValidFinalResult(report) ==
  /\ InRange(report.overallScore)
  /\ \A i \in 1..5 : InRange(report.categoryScores[i])

\* the document FinalResult.create stores, its pre-save hook applied
FinalResultDoc(user, report, answered, total, completionTime) ==
  [userId |-> user, overallScore |-> report.overallScore,
   categoryScores |-> report.categoryScores,
   grade |-> Grade(report.overallScore),
   passed |-> Passed(report.overallScore),
   questionsAnswered |-> answered, totalQuestions |-> total,
   completionPercentage |-> RoundDiv(100 * answered, total),
   completionTime |-> completionTime]

\* the collection holds a document for (interview, user)
HasResult(user) == \E f \in BagToSet(finalResults) : f.userId = user

\* an existence check that never finds a document
ResultExistsNever(user) == FALSE

\* FinalResult.findOne({ interviewId, userId }) finds a document
ResultExists(user) == HasResult(user)

\* a collection without the unique index: no insert is refused
ResultKeyNeverTaken(user) == FALSE

\* the unique index { interviewId, userId } refuses the insert
ResultKeyTaken(user) == HasResult(user)

\* Answer.getInterviewAnswers(interviewId, userId).length
AnswerCount(user) ==
  LET mine == {a \in BagToSet(answers) : a.userId = user}
      Sum[S \in SUBSET mine] ==
        IF S = {} THEN 0
        ELSE LET a == CHOOSE x \in S : TRUE
             IN CopiesIn(a, answers) + Sum[S \ {a}]
  IN Sum[mine]

\* every report the collaborator may give, and its failure
WideFinalResponses ==
  {FinalError} \cup {FinalReport(TRUE, score, categories) :
                       score \in FinalScoreInputs,
                       categories \in CategoryScoreInputs}

\* a guard that lets a started session through as well
GenerateAllowedOnceStarted(status) == status \in {"in_progress", "completed"}

\* the guard of the result handler
GenerateAllowed(status) == status = "completed"

(***************************************************************************)
(* POST /api/results/generate/:interviewId                                 *)
(***************************************************************************)
\* findOne and the status check
GenerateResult(r, user) ==
  /\ ~InFlight(r)
  /\ IF ~FindInterview(user) THEN Respond(r, "generate", "NotFound404")
     ELSE IF ~GenerateAllowed(interview.status)
       THEN Respond(r, "generate", "StateError400")
     ELSE Await(r, [Idle EXCEPT !.op = "generate", !.pc = "exists",
                      !.user = user, !.status = interview.status,
                      !.update = [NoUpdate EXCEPT
                                    !.duration = interview.duration]])
  /\ UNCHANGED <<interview, answers, finalResults, now, facial, gate, drafted>>

\* FinalResult.findOne and the check of its result
GenerateExists(r) ==
  /\ reqs[r].op = "generate" /\ reqs[r].pc = "exists"
  /\ IF ResultExists(reqs[r].user)
       THEN Respond(r, "generate", "Duplicate400")
     ELSE Await(r, [reqs[r] EXCEPT !.pc = "answers"])
  /\ UNCHANGED <<interview, answers, finalResults, now, facial, gate, drafted>>

\* Answer.getInterviewAnswers and the check that there are answers
GenerateAnswers(r) ==
  /\ reqs[r].op = "generate" /\ reqs[r].pc = "answers"
  /\ IF AnswerCount(reqs[r].user) = 0
       THEN Respond(r, "generate", "NoAnswers400")
     ELSE Await(r, [reqs[r] EXCEPT !.pc = "create",
                                   !.count = AnswerCount(reqs[r].user)])
  /\ UNCHANGED <<interview, answers, finalResults, now, facial, gate, drafted>>

\* generateFinalResult with the collaborator answering reply, then
\* FinalResult.create: its validation of the scores and the unique index; an
\* error of either is caught (500)
GenerateCreateWith(r, reply) ==
  /\ reqs[r].op = "generate" /\ reqs[r].pc = "create"
  /\ LET report == generateFinalResult(reply, reqs[r].count,
                                       NumberOfQuestions)
         doc == FinalResultDoc(reqs[r].user, report, reqs[r].count,
                               NumberOfQuestions, reqs[r].update.duration)
     IN IF ~ValidFinalResult(report) \/ ResultKeyTaken(reqs[r].user)
          THEN /\ finalResults' = finalResults
               /\ Respond(r, "generate", "Failed500")
        ELSE /\ finalResults' = finalResults (+) SetToBag({doc})
             /\ Respond(r, "generate", "Created201")
  /\ UNCHANGED <<interview, answers, now, facial, gate, drafted>>

GenerateCreate(r) == \E reply \in FinalResponses : GenerateCreateWith(r, reply)

(***************************************************************************)
(* PUT /api/answers/:id and DELETE /api/answers/:id                        *)
(* The answer is named by its owner and question number; while one of      *)
(* these requests is in flight no answer is created, so the key names the  *)
(* document the request has read.                                          *)
(***************************************************************************)
\* the Answer collection with the document of (user, qn) given a new text
\* and evaluation: save() of the modified paths answerText and aiEvaluation
SaveAnswer(user, qn, text, evaluation) ==
  LET old == CHOOSE a \in BagToSet(answers) :
               a.userId = user /\ a.questionNumber = qn
  IN (answers (-) SetToBag({old}))
       (+) SetToBag({AnswerDoc(user, qn, text, evaluation)})

\* the Answer collection without the document of (user, qn)
RemoveAnswer(user, qn) ==
  LET old == CHOOSE a \in BagToSet(answers) :
               a.userId = user /\ a.questionNumber = qn
  IN answers (-) SetToBag({old})

\* the guard of the handlers that change or delete a stored answer
ReviseAllowed(status) == status # "completed"

\* request validation and Answer.findOne({ _id: id, userId })
UpdateAnswer(r, user, qn, text) ==
  /\ ~InFlight(r)
  /\ IF ~ValidAnswerText(text) THEN Respond(r, "update", "Validation400")
     ELSE IF ~AnswerExists(user, qn) THEN Respond(r, "update", "NotFound404")
     ELSE Await(r, [Idle EXCEPT !.op = "update", !.pc = "interview",
                      !.user = user, !.qn = qn, !.text = text])
  /\ UNCHANGED <<interview, answers, finalResults, now, facial, gate, drafted>>

\* Interview.findById and the status check; interview.status of a session
\* that is gone throws, which the error middleware answers with 500
UpdateCheck(r) ==
  /\ reqs[r].op = "update" /\ reqs[r].pc = "interview"
  /\ IF interview = NoInterview THEN Respond(r, "update", "Failed500")
     ELSE IF ~ReviseAllowed(interview.status)
       THEN Respond(r, "update", "Completed400")
     ELSE Await(r, [reqs[r] EXCEPT !.pc = "evaluate",
                                   !.status = interview.status])
  /\ UNCHANGED <<interview, answers, finalResults, now, facial, gate, drafted>>

\* evaluateAnswer of the new text with the collaborator answering reply,
\* then answer.save(); an error of the save is caught (500), and the save of
\* a document deleted meanwhile writes nothing
UpdateSaveWith(r, reply) ==
  /\ reqs[r].op = "update" /\ reqs[r].pc = "evaluate"
  /\ LET evaluation == evaluateAnswer(reqs[r].text, reply)
     IN IF ~ValidEvaluation(evaluation)
          THEN /\ answers' = answers
               /\ Respond(r, "update", "Failed500")
        ELSE IF ~HasAnswer(reqs[r].user, reqs[r].qn)
          THEN /\ answers' = answers
               /\ \E code \in {"Failed500", "OK200"} :
                    Respond(r, "update", code)
        ELSE /\ answers' = SaveAnswer(reqs[r].user, reqs[r].qn, reqs[r].text,
                                      evaluation)
             /\ Respond(r, "update", "OK200")
  /\ UNCHANGED <<interview, finalResults, now, facial, gate, drafted>>

UpdateSave(r) == \E reply \in EvaluationResponses : UpdateSaveWith(r, reply)

\* Answer.findOne({ _id: id, userId }) of the delete handler
DeleteAnswer(r, user, qn) ==
  /\ ~InFlight(r)
  /\ IF ~AnswerExists(user, qn) THEN Respond(r, "deleteAnswer", "NotFound404")
     ELSE Await(r, [Idle EXCEPT !.op = "deleteAnswer", !.pc = "interview",
                      !.user = user, !.qn = qn])
  /\ UNCHANGED <<interview, answers, finalResults, now, facial, gate, drafted>>

\* Interview.findById and the status check of the delete handler
DeleteAnswerCheck(r) ==
  /\ reqs[r].op = "deleteAnswer" /\ reqs[r].pc = "interview"
  /\ IF interview = NoInterview THEN Respond(r, "deleteAnswer", "Failed500")
     ELSE IF ~ReviseAllowed(interview.status)
       THEN Respond(r, "deleteAnswer", "Completed400")
     ELSE Await(r, [reqs[r] EXCEPT !.pc = "remove",
                                   !.status = interview.status])
  /\ UNCHANGED <<interview, answers, finalResults, now, facial, gate, drafted>>

\* Answer.findByIdAndDelete(id) and the response
DeleteAnswerRemove(r) ==
  /\ reqs[r].op = "deleteAnswer" /\ reqs[r].pc = "remove"
  /\ answers' = IF HasAnswer(reqs[r].user, reqs[r].qn)
                  THEN RemoveAnswer(reqs[r].user, reqs[r].qn)
                ELSE answers
  /\ Respond(r, "deleteAnswer", "OK200")
  /\ UNCHANGED <<interview, finalResults, now, facial, gate, drafted>>

(***************************************************************************)
(* DELETE /api/interviews/:id                                              *)
(***************************************************************************)
\* the two deletions given to Promise.all: Answer.deleteMany at position 1,
\* FinalResult.deleteOne at position 2
CascadeTasks == <<[qn |-> 0, pc |-> "answers"], [qn |-> 0, pc |-> "result"]>>

\* Interview.findOneAndDelete({ _id: id, userId }) and the check of its result
DeleteInterview(r, user) ==
  /\ ~InFlight(r)
  /\ IF ~FindInterview(user)
       THEN /\ interview' = interview
            /\ Respond(r, "delete", "NotFound404")
     ELSE /\ interview' = NoInterview
          /\ Await(r, [Idle EXCEPT !.op = "delete", !.pc = "cascade",
                         !.user = user, !.tasks = CascadeTasks])
  /\ UNCHANGED <<answers, finalResults, now, facial, gate, drafted>>

\* one of Answer.deleteMany({ interviewId }) and FinalResult.deleteOne({
\* interviewId, userId }); the response follows the second of them
DeleteCascade(r, i) ==
  /\ reqs[r].op = "delete" /\ reqs[r].pc = "cascade"
  /\ i \in DOMAIN reqs[r].tasks /\ reqs[r].tasks[i].pc # "done"
  /\ IF reqs[r].tasks[i].pc = "answers"
       THEN /\ answers' = EmptyBag
            /\ finalResults' = finalResults
     ELSE /\ answers' = answers
          /\ finalResults' =
               IF \E f \in BagToSet(finalResults) : f.userId = reqs[r].user
                 THEN finalResults (-) SetToBag({CHOOSE f \in
                        BagToSet(finalResults) : f.userId = reqs[r].user})
               ELSE finalResults
  /\ LET tasks == [reqs[r].tasks EXCEPT ![i].pc = "done"]
     IN IF \A j \in DOMAIN tasks : tasks[j].pc = "done"
          THEN Respond(r, "delete", "Deleted200")
        ELSE Await(r, [reqs[r] EXCEPT !.tasks = tasks])
  /\ UNCHANGED <<interview, now, facial, gate, drafted>>

(***************************************************************************)
(* The text collaborator that never answers                                *)
(***************************************************************************)
\* await geminiModel.generateContent(prompt) in evaluateAnswer or in
\* generateFinalResult, with no answer ever coming: the model is created
\* without a timeout, so the handler stays at the await
GeminiSilent(r) ==
  /\ reqs[r].pc = "create"
  /\ reqs[r].op \in {"submit", "submitAll"} => CallsGemini(reqs[r].text)
  /\ Await(r, [reqs[r] EXCEPT !.pc = "waiting"])
  /\ UNCHANGED <<interview, answers, finalResults, now, facial, gate, drafted>>

(***************************************************************************)
(* POST /api/interviews/generate                                           *)
(* A list of questions is known by its question numbers; 0 stands for a    *)
(* question without a number (or without text or category).                *)
(***************************************************************************)
\* the counts a request asks for (the validator lets 3..20 through)
RequestedCounts == {3, 4, 6}

\* what the collaborator answers: nothing that parses (ok FALSE), or a list
QuestionLists ==
  UNION {[1..n -> 0..MaxNumber] : n \in 2..3} \cup {<<1, 2, 3, 4>>}

\* getFallbackQuestions: baseQuestions.slice(0, numberOfQuestions), of the
\* five built-in questions numbered 1..5
getFallbackQuestions(numberOfQuestions) ==
  SubSeq(<<1, 2, 3, 4, 5>>, 1, Min(numberOfQuestions, 5))

\* generateInterviewQuestions: the parsed list when it has the requested
\* length and every question its text, number and category; else the fallback
generateInterviewQuestions(ok, numbers, numberOfQuestions) ==
  IF ~ok THEN getFallbackQuestions(numberOfQuestions)
  ELSE IF Len(numbers) # numberOfQuestions
    THEN getFallbackQuestions(numberOfQuestions)
  ELSE IF \E i \in 1..Len(numbers) : numbers[i] = 0
    THEN getFallbackQuestions(numberOfQuestions)
  ELSE numbers

\* the handler: generateInterviewQuestions, then Interview.create
GenerateInterview ==
  /\ drafted.state = "ready"
  /\ drafted' = [drafted EXCEPT
       !.state = "stored",
       !.questions = generateInterviewQuestions(drafted.ok, drafted.numbers,
                                                drafted.numberOfQuestions)]
  /\ UNCHANGED <<interview, answers, finalResults, reqs, response, now,
                 facial, gate>>

InitGenerate ==
  /\ interview = [status |-> "generated", startedAt |-> NULL,
                  completedAt |-> NULL, duration |-> 0]
  /\ answers = EmptyBag
  /\ finalResults = EmptyBag
  /\ reqs = [r \in Slots |-> Idle]
  /\ response = [op |-> "none", code |-> "none"]
  /\ now = 0
  /\ facial = NoFacial
  /\ gate = NoGate
  /\ drafted \in {[NoDraft EXCEPT !.numberOfQuestions = n, !.ok = ok,
                                  !.numbers = numbers, !.state = "ready"] :
                    n \in RequestedCounts, ok \in BOOLEAN,
                    numbers \in QuestionLists}

SpecGenerate == InitGenerate /\ [][GenerateInterview]_vars

(***************************************************************************)
(* aggregateFacialAnalysis                                                 *)
(***************************************************************************)
FacialEntry(confidence, eyeContact, speechClarity, overallScore) ==
  [confidence |-> confidence, eyeContact |-> eyeContact,
   speechClarity |-> speechClarity, overallScore |-> overallScore]

\* an entry that is null, or has no overallScore
AbsentEntry == FacialEntry(NULL, NULL, NULL, NULL)
\* an entry measured with overallScore 0
ZeroEntry == FacialEntry(50, 50, 50, 0)
FacialEntries ==
  {AbsentEntry, ZeroEntry, FacialEntry(80, 70, 90, 80),
   FacialEntry(60, 75, 85, 60), FacialEntry(85, 80, 70, 85)}
FacialInputs == UNION {[1..n -> FacialEntries] : n \in 0..MaxEntries}

\* getFallbackFacialAnalysis: the fixed summary, metadata.fallback set; it
\* has no analysisCount
getFallbackFacialAnalysis ==
  [kind |-> "fallback", confidence |-> 70, eyeContact |-> 65,
   speechClarity |-> 70, overallScore |-> 68, analysisCount |-> NULL]

\* a filter that keeps the entries measured with overallScore 0
ValidFacialResultOrZero(result) == result.overallScore >= 0

\* the filter: result && result.overallScore > 0
ValidFacialResult(result) == result.overallScore > 0

\* an average cut to a whole number instead of rounded
AverageMetricFloor(total, count) == total \div count

\* Math.round(total / validResults.length)
AverageMetric(total, count) == RoundDiv(total, count)

\* validResults.reduce((sum, result) => sum + ..., 0) over a list of numbers
SumOfList(q) ==
  LET sum[i \in 0..Len(q)] == IF i = 0 THEN 0 ELSE sum[i - 1] + q[i]
  IN sum[Len(q)]

aggregateFacialAnalysis(analysisResults) ==
  LET validResults == SelectSeq(analysisResults, ValidFacialResult)
      count == Len(validResults)
  IN IF Len(analysisResults) = 0 THEN getFallbackFacialAnalysis
     ELSE IF count = 0 THEN getFallbackFacialAnalysis
     ELSE [kind |-> "aggregate",
           confidence |-> AverageMetric(
             SumOfList([i \in 1..count |-> validResults[i].confidence]), count),
           eyeContact |-> AverageMetric(
             SumOfList([i \in 1..count |-> validResults[i].eyeContact]), count),
           speechClarity |-> AverageMetric(
             SumOfList([i \in 1..count |-> validResults[i].speechClarity]),
             count),
           overallScore |-> AverageMetric(
             SumOfList([i \in 1..count |-> validResults[i].overallScore]),
             count),
           analysisCount |-> count]

\* a call of the aggregator on the list drawn
Aggregate ==
  /\ facial.summary = NoSummary
  /\ facial' = [facial EXCEPT
                  !.summary = aggregateFacialAnalysis(facial.results)]
  /\ UNCHANGED <<interview, answers, finalResults, reqs, response, now, gate, drafted>>

InitAggregate ==
  /\ interview = [status |-> "generated", startedAt |-> NULL,
                  completedAt |-> NULL, duration |-> 0]
  /\ answers = EmptyBag
  /\ finalResults = EmptyBag
  /\ reqs = [r \in Slots |-> Idle]
  /\ response = [op |-> "none", code |-> "none"]
  /\ now = 0
  /\ facial \in {[results |-> q, summary |-> NoSummary] : q \in FacialInputs}
  /\ gate = NoGate
  /\ drafted = NoDraft

SpecAggregate == InitAggregate /\ [][Aggregate]_vars

(***************************************************************************)
(* The specifications.  The lifecycle operations are the only ones that    *)
(* read the clock; they are checked with the clock running.  The answer    *)
(* ledger and the result compiler are checked together with the lifecycle  *)
(* operations that open and close the session for them.                    *)
(***************************************************************************)
Lifecycle ==
  \/ \E r \in Slots, user \in Users : StartSession(r, user)
  \/ \E r \in Slots : StartSave(r)
  \/ \E r \in Slots, user \in Users : CompleteSession(r, user)
  \/ \E r \in Slots : CompleteSave(r)

Ledger ==
  \/ \E r \in Slots, user \in Users, qn \in QuestionInputs, text \in TextInputs :
       SubmitAnswer(r, user, qn, text)
  \/ \E r \in Slots : SubmitExists(r)
  \/ \E r \in Slots : SubmitCreate(r)
  \/ \E r \in Slots, user \in Users, batch \in BatchInputs,
        text \in BatchTextInputs : SubmitAll(r, user, batch, text)
  \/ \E r \in Slots : SubmitAllExists(r)
  \/ \E r \in Slots : SubmitAllCreate(r)

Results ==
  \/ \E r \in Slots, user \in Users : GenerateResult(r, user)
  \/ \E r \in Slots : GenerateExists(r)
  \/ \E r \in Slots : GenerateAnswers(r)
  \/ \E r \in Slots : GenerateCreate(r)

NextLifecycle == Tick \/ Lifecycle
SpecLifecycle == Init /\ [][NextLifecycle]_vars

\* the lifecycle operations with one request at a time: a request is sent
\* only after the response to the one before it
Quiet == \A r \in Slots : ~InFlight(r)

Sequential ==
  \/ \E r \in Slots, user \in Users : Quiet /\ StartSession(r, user)
  \/ \E r \in Slots : StartSave(r)
  \/ \E r \in Slots, user \in Users : Quiet /\ CompleteSession(r, user)
  \/ \E r \in Slots : CompleteSave(r)

NextSequential == Tick \/ Sequential
SpecSequential == Init /\ [][NextSequential]_vars

\* the way to a result, one request at a time, with the final-result
\* collaborator free to report anything
Compile ==
  \/ \E r \in Slots : Quiet /\ StartSession(r, Owner)
  \/ \E r \in Slots : StartSave(r)
  \/ \E r \in Slots, qn \in 1..MaxQuestionInput :
       Quiet /\ SubmitAnswer(r, Owner, qn, TextLong)
  \/ \E r \in Slots : SubmitExists(r)
  \/ \E r \in Slots : SubmitCreate(r)
  \/ \E r \in Slots : Quiet /\ CompleteSession(r, Owner)
  \/ \E r \in Slots : CompleteSave(r)
  \/ \E r \in Slots : Quiet /\ GenerateResult(r, Owner)
  \/ \E r \in Slots : GenerateExists(r)
  \/ \E r \in Slots : GenerateAnswers(r)
  \/ \E r \in Slots, reply \in WideFinalResponses : GenerateCreateWith(r, reply)

SpecCompile == Init /\ [][Compile]_vars

\* the requests that call the text collaborator, one at a time, with a
\* collaborator that answers, fails, or never answers; a handler takes its
\* next step whenever the operation it waits for has answered
Live ==
  \/ \E r \in Slots : Quiet /\ StartSession(r, Owner)
  \/ \E r \in Slots : StartSave(r)
  \/ \E r \in Slots, qn \in 1..MaxQuestionInput :
       Quiet /\ SubmitAnswer(r, Owner, qn, TextLong)
  \/ \E r \in Slots : SubmitExists(r)
  \/ \E r \in Slots : SubmitCreate(r)
  \/ \E r \in Slots, batch \in BatchInputs :
       Quiet /\ SubmitAll(r, Owner, batch, TextLong)
  \/ \E r \in Slots : SubmitAllExists(r)
  \/ \E r \in Slots : SubmitAllCreate(r)
  \/ \E r \in Slots : Quiet /\ CompleteSession(r, Owner)
  \/ \E r \in Slots : CompleteSave(r)
  \/ \E r \in Slots : Quiet /\ GenerateResult(r, Owner)
  \/ \E r \in Slots : GenerateExists(r)
  \/ \E r \in Slots : GenerateAnswers(r)
  \/ \E r \in Slots : GenerateCreate(r)
  \/ \E r \in Slots : GeminiSilent(r)

HandlerStep(r) ==
  \/ StartSave(r) \/ CompleteSave(r)
  \/ SubmitExists(r) \/ SubmitCreate(r)
  \/ SubmitAllExists(r) \/ SubmitAllCreate(r)
  \/ GenerateExists(r) \/ GenerateAnswers(r) \/ GenerateCreate(r)

SpecLive ==
  Init /\ [][Live]_vars /\ \A r \in Slots : WF_vars(HandlerStep(r))

\* submissions one request at a time, with every kind of text and the
\* evaluation collaborator free to answer anything
Scoring ==
  \/ \E r \in Slots : Quiet /\ StartSession(r, Owner)
  \/ \E r \in Slots : StartSave(r)
  \/ \E r \in Slots, qn \in 1..MaxQuestionInput, text \in WideTextInputs :
       Quiet /\ SubmitAnswer(r, Owner, qn, text)
  \/ \E r \in Slots : SubmitExists(r)
  \/ \E r \in Slots, reply \in WideEvaluationResponses :
       SubmitCreateWith(r, reply)

SpecScoring == Init /\ [][Scoring]_vars

\* the batch endpoints, one request at a time, on a ledger that single
\* submissions may have written to
Batch ==
  \/ \E r \in Slots : Quiet /\ StartSession(r, Owner)
  \/ \E r \in Slots : StartSave(r)
  \/ \E r \in Slots, qn \in 1..MaxQuestionInput :
       Quiet /\ SubmitAnswer(r, Owner, qn, TextLong)
  \/ \E r \in Slots : SubmitExists(r)
  \/ \E r \in Slots : SubmitCreate(r)
  \/ \E r \in Slots, batch \in BatchInputs :
       Quiet /\ SubmitAll(r, Owner, batch, TextLong)
  \/ \E r \in Slots : SubmitAllExists(r)
  \/ \E r \in Slots : SubmitAllCreate(r)
  \/ \E r \in Slots, batch \in BatchInputs :
       Quiet /\ Bulk(r, Owner, batch, TextLong)
  \/ \E r \in Slots, i \in 1..MaxBatch : BulkExists(r, i)
  \/ \E r \in Slots, i \in 1..MaxBatch : BulkCreate(r, i)

SpecBatch == Init /\ [][Batch]_vars

\* deletion of the session while submissions and result generation are in
\* flight; the lifecycle requests run on their own
NoSaveInFlight == \A r \in Slots : reqs[r].op \notin {"start", "complete"}

Deletion ==
  \/ \E r \in Slots : Quiet /\ StartSession(r, Owner)
  \/ \E r \in Slots : StartSave(r)
  \/ \E r \in Slots, qn \in 1..MaxQuestionInput :
       SubmitAnswer(r, Owner, qn, TextLong)
  \/ \E r \in Slots : SubmitExists(r)
  \/ \E r \in Slots : SubmitCreate(r)
  \/ \E r \in Slots : Quiet /\ CompleteSession(r, Owner)
  \/ \E r \in Slots : CompleteSave(r)
  \/ \E r \in Slots : GenerateResult(r, Owner)
  \/ \E r \in Slots : GenerateExists(r)
  \/ \E r \in Slots : GenerateAnswers(r)
  \/ \E r \in Slots : GenerateCreate(r)
  \/ \E r \in Slots, user \in Users : NoSaveInFlight /\ DeleteInterview(r, user)
  \/ \E r \in Slots, i \in 1..2 : DeleteCascade(r, i)

SpecDeletion == Init /\ [][Deletion]_vars

\* changes and deletions of stored answers, free to overlap each other and
\* the lifecycle requests; an answer is submitted only with nothing else in
\* flight, and the lifecycle requests do not overlap each other
Calm == \A r \in Slots : reqs[r].op \notin {"start", "complete", "submit"}

Revise ==
  \/ \E r \in Slots : Calm /\ StartSession(r, Owner)
  \/ \E r \in Slots : StartSave(r)
  \/ \E r \in Slots, qn \in 1..MaxQuestionInput :
       Quiet /\ SubmitAnswer(r, Owner, qn, TextLong)
  \/ \E r \in Slots : SubmitExists(r)
  \/ \E r \in Slots : SubmitCreate(r)
  \/ \E r \in Slots : Calm /\ CompleteSession(r, Owner)
  \/ \E r \in Slots : CompleteSave(r)
  \/ \E r \in Slots, user \in Users, qn \in 1..MaxQuestionInput,
        text \in {TextOk, TextBrief} : UpdateAnswer(r, user, qn, text)
  \/ \E r \in Slots : UpdateCheck(r)
  \/ \E r \in Slots : UpdateSave(r)
  \/ \E r \in Slots, user \in Users, qn \in 1..MaxQuestionInput :
       DeleteAnswer(r, user, qn)
  \/ \E r \in Slots : DeleteAnswerCheck(r)
  \/ \E r \in Slots : DeleteAnswerRemove(r)

SpecRevise == Init /\ [][Revise]_vars

\* the requests of both users: the owner's one at a time, another user's
\* at any moment
Turn(user) == Quiet \/ user # Owner

Ownership ==
  \/ \E r \in Slots, user \in Users : Turn(user) /\ StartSession(r, user)
  \/ \E r \in Slots : StartSave(r)
  \/ \E r \in Slots, user \in Users : Turn(user) /\ CompleteSession(r, user)
  \/ \E r \in Slots : CompleteSave(r)
  \/ \E r \in Slots, user \in Users, qn \in QuestionInputs,
        text \in TextInputs : Turn(user) /\ SubmitAnswer(r, user, qn, text)
  \/ \E r \in Slots : SubmitExists(r)
  \/ \E r \in Slots : SubmitCreate(r)
  \/ \E r \in Slots, user \in Users, batch \in BatchInputs,
        text \in BatchTextInputs :
       Turn(user) /\ SubmitAll(r, user, batch, text)
  \/ \E r \in Slots : SubmitAllExists(r)
  \/ \E r \in Slots : SubmitAllCreate(r)
  \/ \E r \in Slots, user \in Users : Turn(user) /\ GenerateResult(r, user)
  \/ \E r \in Slots : GenerateExists(r)
  \/ \E r \in Slots : GenerateAnswers(r)
  \/ \E r \in Slots : GenerateCreate(r)

SpecOwnership == Init /\ [][Ownership]_vars

NextLedger == Lifecycle \/ Ledger
SpecLedger == Init /\ [][NextLedger]_vars

Next == Lifecycle \/ Ledger \/ Results
Spec == Init /\ [][Next]_vars

(***************************************************************************)
(* The claims                                                              *)
(***************************************************************************)
Sent(op, code) == [op |-> op, code |-> code]

\* C1: under any interleaving of start and complete requests, every change
\* of the session's status is generated -> in_progress or in_progress ->
\* completed; completed is never left and abandoned is never reached.
C1_OnlyLegalTransitions ==
  [][interview'.status # interview.status =>
       /\ <<interview.status, interview'.status>> \in
            {<<"generated", "in_progress">>, <<"in_progress", "completed">>}
       /\ interview'.status # "abandoned"]_vars

\* C2: a start request of the owner on a generated session is not rejected,
\* and its save sets status to in_progress, records a start time (a time not
\* after the present one) and answers success; on a session in any other
\* status the request is answered with a state error and changes nothing.
C2_StartSession ==
  [][\A r \in Slots :
       /\ StartSession(r, Owner) =>
            IF interview.status = "generated"
              THEN reqs'[r].op = "start" /\ reqs'[r].pc = "save"
            ELSE /\ response' = Sent("start", "StateError400")
                 /\ reqs'[r] = Idle
                 /\ interview' = interview
       /\ (reqs[r].op = "start" /\ reqs'[r] # reqs[r]) =>
            /\ interview'.status = "in_progress"
            /\ interview'.startedAt \in 0..now
            /\ response' = Sent("start", "OK200")]_vars

\* C2 witness: a start was answered with a state error on a session that an
\* earlier start, at a time after 0, had moved on
C2_Witness ==
  /\ response = Sent("start", "StateError400")
  /\ interview.status \in {"in_progress", "completed"}
  /\ interview.startedAt > 0

C4_AnswersOnlyInProgress ==
  [][answers' # answers => interview.status = "in_progress"]_vars

\* C5: the stored Answers of every (session, owner) hold no question number
\* twice, and every question number stored is one the session declares.
C5_UniqueDeclaredQuestions ==
  \A a \in BagToSet(answers) :
    /\ CopiesIn(a, answers) = 1
    /\ a.questionNumber \in Questions
    /\ \A b \in BagToSet(answers) :
         (a.userId = b.userId /\ a.questionNumber = b.questionNumber) => a = b

\* C5 witness: Answers for two questions are stored and the unique index has
\* just refused a third insert
C5_Witness ==
  /\ Cardinality(BagToSet(answers)) = 2
  /\ response.code \in {"Failed500", "DuplicateKey500"}

\* C6: of two concurrent submitAnswer calls for one (session, owner,
\* question number) each ends in one of two ways: it succeeds and has
\* persisted its Answer, where none was stored, or it is rejected with a
\* DuplicateError and has persisted nothing.
C6_OneSucceedsOtherDuplicate ==
  [][\A r \in Slots :
       (reqs[r].op = "submit" /\ reqs'[r] = Idle) =>
          \/ /\ response' = Sent("submit", "Created201")
             /\ ~HasAnswer(reqs[r].user, reqs[r].qn)
             /\ \E a \in BagToSet(answers') :
                  a.userId = reqs[r].user /\ a.questionNumber = reqs[r].qn
          \/ /\ response' = Sent("submit", "Duplicate400")
             /\ answers' = answers]_vars

C9_SecondGenerateRejected ==
  [][\A r \in Slots :
       (/\ reqs[r].op = "generate" /\ reqs[r].pc = "exists"
        /\ HasResult(reqs[r].user)
        /\ reqs'[r] # reqs[r]) =>
          /\ response' = Sent("generate", "Duplicate400")
          /\ reqs'[r] = Idle
          /\ finalResults' = finalResults]_vars

\* C9 witness: a second request has been rejected as a duplicate and the
\* result of the first is stored
C9_Witness ==
  /\ response = Sent("generate", "Duplicate400")
  /\ HasResult(Owner)

\* C10: generateResult goes on only for a session it finds completed, and
\* creates a FinalResult only when it has found at least one Answer; on a
\* generated or in_progress session, and when it finds no Answer, it fails
\* and creates nothing.
C10_GenerateNeedsCompletedAndAnswers ==
  [][\A r \in Slots :
       /\ GenerateResult(r, Owner) =>
            IF interview.status = "completed"
              THEN reqs'[r].op = "generate" /\ reqs'[r].pc = "exists"
            ELSE /\ response' = Sent("generate", "StateError400")
                 /\ reqs'[r] = Idle
                 /\ finalResults' = finalResults
       /\ (/\ reqs[r].op = "generate" /\ reqs[r].pc = "answers"
           /\ \A a \in BagToSet(answers) : a.userId # reqs[r].user
           /\ reqs'[r] # reqs[r]) =>
            /\ response' = Sent("generate", "NoAnswers400")
            /\ reqs'[r] = Idle
            /\ finalResults' = finalResults
       /\ (reqs[r].op = "generate" /\ finalResults' # finalResults
             /\ reqs'[r] # reqs[r]) =>
            /\ reqs[r].status = "completed"
            /\ reqs[r].count >= 1
            /\ \E a \in BagToSet(answers) : a.userId = reqs[r].user]_vars

\* C10 witness: a request on a completed session with an answer stored has
\* created the result
C10_Witness ==
  /\ response = Sent("generate", "Created201")
  /\ interview.status = "completed"
  /\ HasResult(Owner)
  /\ HasAnswer(Owner, 1)

\* C11: for every stored FinalResult, grade is the letter the fixed ladder
\* gives for its overallScore (>= 95 A+, >= 90 A, >= 85 B+, >= 80 B, >= 75 C+,
\* >= 70 C, >= 60 D, otherwise F) and passed is true exactly when
\* overallScore >= 70.
C11_GradeLadder ==
  \A f \in BagToSet(finalResults) :
    /\ f.grade = "A+" <=> f.overallScore >= 95
    /\ f.grade = "A" <=> (f.overallScore >= 90 /\ f.overallScore < 95)
    /\ f.grade = "B+" <=> (f.overallScore >= 85 /\ f.overallScore < 90)
    /\ f.grade = "B" <=> (f.overallScore >= 80 /\ f.overallScore < 85)
    /\ f.grade = "C+" <=> (f.overallScore >= 75 /\ f.overallScore < 80)
    /\ f.grade = "C" <=> (f.overallScore >= 70 /\ f.overallScore < 75)
    /\ f.grade = "D" <=> (f.overallScore >= 60 /\ f.overallScore < 70)
    /\ f.grade = "F" <=> f.overallScore < 60
    /\ f.passed <=> f.overallScore >= 70

\* C11 witness: a result with overallScore 69 is stored with grade D, not
\* passed
C11_Witness ==
  \E f \in BagToSet(finalResults) :
    f.overallScore = 69 /\ f.grade = "D" /\ ~f.passed

\* C12: the overallScore of every stored FinalResult is the weighted sum of
\* its own category scores, 25% technicalKnowledge + 20% communication + 25%
\* problemSolving + 15% confidence + 15% facialAnalysis (to the nearest
\* whole number).
C12_OverallIsWeightedSum ==
  \A f \in BagToSet(finalResults) :
    LET c == f.categoryScores
        weighted == 25 * c[1] + 20 * c[2] + 25 * c[3] + 15 * c[4] + 15 * c[5]
    IN /\ 2 * (100 * f.overallScore - weighted) <= 100
       /\ 2 * (weighted - 100 * f.overallScore) <= 100

\* C13: the overallScore, grade and passed that generateResult stores are
\* the ones it would have stored for any other response of the narrative
\* collaborator that lets a result be stored.
C13_ScoreIndependentOfCollaborator ==
  [][\A r \in Slots :
       (reqs[r].op = "generate" /\ reqs[r].pc = "create"
          /\ finalResults' # finalResults) =>
         \A f \in BagToSet(finalResults'), reply \in WideFinalResponses :
           LET report == generateFinalResult(reply, reqs[r].count,
                                             NumberOfQuestions)
               doc == FinalResultDoc(reqs[r].user, report, reqs[r].count,
                                     NumberOfQuestions, f.completionTime)
           IN ValidFinalResult(report) =>
                /\ f.overallScore = doc.overallScore
                /\ f.grade = doc.grade
                /\ f.passed = doc.passed]_vars

\* the quality gate lets the text through to the collaborator: it is not
\* too short, not gibberish, and related to the question or 50 characters long
ReachesCollaborator(text) ==
  text.len >= 10 /\ ~text.gibberish /\ (text.related \/ text.len >= 50)

\* the Answer stored for a key has this evaluation
StoredEvaluation(store, user, qn, evaluation) ==
  \E a \in BagToSet(store) :
    a.userId = user /\ a.questionNumber = qn /\ a.aiEvaluation = evaluation

\* C14: when the evaluation collaborator fails, answers nothing that parses,
\* or reports a sub-score that is not a number in 0..100, submitAnswer still
\* succeeds and stores the Answer with the fixed fallback evaluation
\* (30, 25, 20, 35, overall 28).
C14_FallbackOnCollaboratorFailure ==
  [][\A r \in Slots, reply \in FailingEvaluationResponses :
       (/\ SubmitCreateWith(r, reply)
        /\ ReachesCollaborator(reqs[r].text)
        /\ ~HasAnswer(reqs[r].user, reqs[r].qn)) =>
          /\ response' = Sent("submit", "Created201")
          /\ StoredEvaluation(answers', reqs[r].user, reqs[r].qn,
               [relevance |-> 30, completeness |-> 25,
                technicalAccuracy |-> 20, communication |-> 35,
                overallScore |-> 28])]_vars

ShortAnswerCaps(e) ==
  /\ e.relevance <= 40 /\ e.completeness <= 30
  /\ e.technicalAccuracy <= 25 /\ e.communication <= 35

\* overall = round(mean of the four sub-scores), halves rounded up
OverallIsRoundedMean(e) ==
  LET sum == e.relevance + e.completeness + e.technicalAccuracy
               + e.communication
  IN 4 * e.overallScore <= sum + 2 /\ 4 * e.overallScore > sum - 2

\* C16 as stated: every stored Answer whose text is shorter than 20
\* characters has its sub-scores within the caps 40, 30, 25, 35 and overall =
\* round(mean of the four stored sub-scores), on every evaluation path.
C16_ShortAnswerCapsAndMean ==
  \A a \in BagToSet(answers) :
    a.answerText.len < 20 =>
      ShortAnswerCaps(a.aiEvaluation) /\ OverallIsRoundedMean(a.aiEvaluation)

\* C16 amended: every stored Answer whose text is shorter than 20 characters
\* has its sub-scores within the caps on every evaluation path; its overall
\* is round(mean of the four stored sub-scores) when the text reached the
\* collaborator (its reply or the fallback), and is the gate's score band,
\* equal to the stored relevance, when the quality gate fired.
C16_ShortAnswerCapsMeanOrBand ==
  \A a \in BagToSet(answers) :
    a.answerText.len < 20 =>
      /\ ShortAnswerCaps(a.aiEvaluation)
      /\ IF ReachesCollaborator(a.answerText)
           THEN OverallIsRoundedMean(a.aiEvaluation)
         ELSE /\ a.aiEvaluation.overallScore \in {8, 12}
              /\ a.aiEvaluation.overallScore = a.aiEvaluation.relevance

\* C16 witness: a 15-character answer went to the collaborator, which
\* reported 90, 85, 88, 82: it is stored capped to 40, 30, 25, 35, overall 33
C16_Witness ==
  \E a \in BagToSet(answers) :
    /\ a.answerText.len = 15
    /\ a.aiEvaluation = [relevance |-> 40, completeness |-> 30,
                         technicalAccuracy |-> 25, communication |-> 35,
                         overallScore |-> 33]

\* C17: a submitAnswer call on an in_progress session with a text shorter
\* than 10 characters ("ok") is taken on to the quality gate, and every
\* Answer stored for such a text has overall 5.
C17_TooShortIsScoredFive ==
  /\ [][\A r \in Slots, qn \in Questions :
          (/\ SubmitAnswer(r, Owner, qn, TextOk)
           /\ interview.status = "in_progress"
           /\ ~HasAnswer(Owner, qn)) =>
             /\ reqs'[r].op = "submit" /\ reqs'[r].pc = "exists"
             /\ reqs'[r].text = TextOk]_vars
  /\ [](\A a \in BagToSet(answers) :
          a.answerText.len < 10 => a.aiEvaluation.overallScore = 5)

\* the positions of the list whose entry has overallScore > 0
ValidPositions(q) == {i \in 1..Len(q) : q[i].overallScore > 0}

\* avg is the arithmetic mean of the numbers at the positions P of q,
\* rounded to the nearest whole number, halves up
IsRoundedMean(avg, q, P) ==
  LET sum[S \in SUBSET P] ==
        IF S = {} THEN 0
        ELSE LET i == CHOOSE x \in S : TRUE IN q[i] + sum[S \ {i}]
      n == Cardinality(P)
  IN 2 * n * avg <= 2 * sum[P] + n /\ 2 * n * avg > 2 * sum[P] - n

\* C18: for an empty list, and for a list whose every entry has
\* overallScore 0 or none, the aggregator returns the fixed fallback summary
\* (70, 65, 70, overall 68), flagged as fallback.
C18_FallbackWithoutValidEntries ==
  (facial.summary # NoSummary /\ ValidPositions(facial.results) = {}) =>
     /\ facial.summary.kind = "fallback"
     /\ facial.summary.confidence = 70 /\ facial.summary.eyeContact = 65
     /\ facial.summary.speechClarity = 70 /\ facial.summary.overallScore = 68

\* C18 witness: the fallback has been returned for a list of an entry with
\* overallScore 0 and an entry without one
C18_Witness ==
  /\ facial.results = <<ZeroEntry, AbsentEntry>>
  /\ facial.summary.kind = "fallback"

\* C19: with at least one entry of overallScore > 0, each averaged metric is
\* the rounded mean over exactly those entries, and analysisCount is their
\* number.
C19_AveragesOverValidEntries ==
  LET q == facial.results
      P == ValidPositions(q)
  IN (facial.summary # NoSummary /\ P # {}) =>
       /\ facial.summary.kind = "aggregate"
       /\ facial.summary.analysisCount = Cardinality(P)
       /\ IsRoundedMean(facial.summary.confidence,
                        [i \in 1..Len(q) |-> q[i].confidence], P)
       /\ IsRoundedMean(facial.summary.eyeContact,
                        [i \in 1..Len(q) |-> q[i].eyeContact], P)
       /\ IsRoundedMean(facial.summary.speechClarity,
                        [i \in 1..Len(q) |-> q[i].speechClarity], P)
       /\ IsRoundedMean(facial.summary.overallScore,
                        [i \in 1..Len(q) |-> q[i].overallScore], P)

\* C19 witness: entries with overallScore 80, 0 and 60 have given the
\* average 70 and the count 2
C19_Witness ==
  /\ facial.results = <<FacialEntry(80, 70, 90, 80), ZeroEntry,
                        FacialEntry(60, 75, 85, 60)>>
  /\ facial.summary.overallScore = 70
  /\ facial.summary.analysisCount = 2

\* the answers a step adds to the collection
Persisted == BagToSet(answers') \ BagToSet(answers)

\* C20: in a batch submission, once the answer at some position has failed
\* as an unknown question or a duplicate, the answers already persisted
\* stay persisted and no answer at a later position of the batch is
\* persisted, on /submit-all and on /bulk.
C20_FailureAbortsRestOfBatch ==
  [][\A r \in Slots :
       /\ \A a \in BagToSet(answers) : a \in BagToSet(answers')
       \* /submit-all: the step that answers with the failure ends the
       \* request, having persisted at most the answer before the failing one
       /\ (/\ reqs[r].op = "submitAll"
           /\ reqs'[r] = Idle
           /\ response'.code \in
                {"QuestionNotFound500", "AlreadyExists500", "DuplicateKey500"})
          => \A a \in Persisted :
               /\ a.questionNumber = Head(reqs[r].batch)
               /\ response'.code = "QuestionNotFound500"
       \* /bulk: no task creates its answer after one before it has thrown
       /\ \A i, j \in 1..MaxBatch :
            (/\ i < j
             /\ BulkCreate(r, j)
             /\ reqs[r].tasks[i].pc \in {"notFound", "duplicate"})
            => Persisted = {}]_vars

\* C21: the gate checks too-short (band 5), then gibberish (band 8), then
\* unrelated and under 50 characters (band 12), and stops at the first that
\* matches; on a match the evaluation is band, max(0, band-5),
\* max(0, band-8), band+5 with overall band and the collaborator is not
\* called; without a match the collaborator is called.
C21_GateOrderAndBands ==
  gate.state = "done" =>
    LET text == gate.text
        band == IF text.len < 10 THEN 5
                ELSE IF text.gibberish THEN 8
                ELSE IF ~text.related /\ text.len < 50 THEN 12
                ELSE 0
    IN IF band # 0
         THEN /\ ~gate.called
              /\ gate.evaluation =
                   [relevance |-> band,
                    completeness |-> IF band > 5 THEN band - 5 ELSE 0,
                    technicalAccuracy |-> IF band > 8 THEN band - 8 ELSE 0,
                    communication |-> band + 5,
                    overallScore |-> band]
       ELSE gate.called

\* C21 witness: a 2-character text that is also gibberish and unrelated has
\* been given band 5, the first check's, without a call of the collaborator
C21_Witness ==
  /\ gate.state = "done" /\ gate.text = TextOk /\ ~gate.called
  /\ gate.evaluation.relevance = 5 /\ gate.evaluation.completeness = 0
  /\ gate.evaluation.communication = 10 /\ gate.evaluation.overallScore = 5

\* the sum of one score of the evaluation over a set of Answer documents
SumOfEvaluations(S, field) ==
  LET sum[T \in SUBSET S] ==
        IF T = {} THEN 0
        ELSE LET a == CHOOSE x \in T : TRUE
             IN a.aiEvaluation[field] + sum[T \ {a}]
  IN sum[S]

\* x is total / d to the nearest whole number
NearestTo(x, total, d) ==
  2 * (d * x - total) <= d /\ 2 * (total - d * x) <= d

\* C22: the category scores of a FinalResult are derived from the stored
\* Answers: technicalKnowledge the average technicalAccuracy, communication
\* the average communication, problemSolving the mean of the average
\* relevance and the average completeness, confidence and facialAnalysis the
\* aggregated behavioral confidence and overall score (here the aggregate of
\* answers without behavioral data, 70 and 68).
C22_CategoriesFromAnswers ==
  [][\A f \in BagToSet(finalResults') \ BagToSet(finalResults) :
       LET mine == {a \in BagToSet(answers) : a.userId = f.userId}
           n == Cardinality(mine)
           c == f.categoryScores
       IN /\ n > 0
          /\ NearestTo(c[1], SumOfEvaluations(mine, "technicalAccuracy"), n)
          /\ NearestTo(c[2], SumOfEvaluations(mine, "communication"), n)
          /\ NearestTo(c[3], SumOfEvaluations(mine, "relevance")
                               + SumOfEvaluations(mine, "completeness"), 2 * n)
          /\ c[4] = getFallbackFacialAnalysis.confidence
          /\ c[5] = getFallbackFacialAnalysis.overallScore]_vars

\* C23: the question numbers of every stored session, from the collaborator
\* or from the built-in list, are pairwise distinct and are exactly 1..k for
\* the k questions stored.
C23_QuestionNumbersContiguous ==
  drafted.state = "stored" =>
    LET q == drafted.questions
    IN /\ \A i, j \in 1..Len(q) : i # j => q[i] # q[j]
       /\ {q[i] : i \in 1..Len(q)} = 1..Len(q)

\* C24: every submitAnswer, submitAll and generateResult request eventually
\* returns a response, also when a collaborator never answers.
C24_EveryRequestIsAnswered ==
  \A r \in Slots :
    (reqs[r].op \in {"submit", "submitAll", "generate"}) ~> ~InFlight(r)

\* C25: once deleteInterview has returned, no Answer and no FinalResult of
\* the session remains in the store, also when a submitAnswer or
\* generateResult request was in flight during the deletion.
C25_DeletionCascades ==
  (interview.status = "absent" /\ \A r \in Slots : reqs[r].op # "delete") =>
     answers = EmptyBag /\ finalResults = EmptyBag

\* C26: a startSession or completeSession request rejected because the
\* session is in the wrong state leaves status, start time, completion time
\* and duration as they were.
C26_RejectionChangesNothing ==
  [][(/\ reqs' = reqs /\ now' = now
      /\ response'.op \in {"start", "complete"}
      /\ response'.code = "StateError400")
     => interview' = interview]_vars

\* C26 witness: a start request has been rejected on a started session, with
\* the clock past the session's start time
C26_Witness ==
  /\ response = [op |-> "start", code |-> "StateError400"]
  /\ interview.status = "in_progress"
  /\ interview.startedAt # NULL /\ interview.startedAt < now

\* C27: the session's timestamps agree with its status in every reachable
\* state, under any interleaving of startSession and completeSession: none
\* when generated; a start time only when in_progress; both when completed,
\* the completion not before the start, and duration >= 0.
C27_TimestampsAgreeWithStatus ==
  /\ interview.status = "generated" =>
       interview.startedAt = NULL /\ interview.completedAt = NULL
  /\ interview.status = "in_progress" =>
       interview.startedAt # NULL /\ interview.completedAt = NULL
  /\ interview.status = "completed" =>
       /\ interview.startedAt # NULL /\ interview.completedAt # NULL
       /\ interview.completedAt >= interview.startedAt
       /\ interview.duration >= 0

\* C28: whenever a FinalResult exists for the session, the session exists
\* and its status is completed (states in the middle of a deletion's own
\* cascade are not held against it).
C28_ResultOnlyOfCompletedSession ==
  (finalResults # EmptyBag /\ \A r \in Slots : reqs[r].op # "delete") =>
     interview.status = "completed"

\* C29: once the session is completed, an updateAnswer or deleteAnswer
\* request is rejected and changes no Answer, and the Answers of a completed
\* session stay exactly as they are; and the evaluation stored with an
\* Answer always belongs to the text stored with it.
C29_AnswersFrozenOnceCompleted ==
  /\ [][\A r \in Slots :
          (/\ reqs[r].op \in {"update", "deleteAnswer"}
           /\ reqs[r].pc = "interview"
           /\ interview.status = "completed"
           /\ reqs'[r] # reqs[r])
          => /\ response'.code = "Completed400"
             /\ reqs'[r] = Idle
             /\ answers' = answers]_vars
  /\ [][(interview.status = "completed" /\ interview'.status = "completed")
          => answers' = answers]_vars
  /\ [](\A a \in BagToSet(answers) :
          \E reply \in EvaluationResponses :
            a.aiEvaluation = evaluateAnswer(a.answerText, reply))

\* the step has changed nothing in the store and left no request in flight
\* in slot r
NothingDone(r) ==
  /\ reqs'[r] = Idle
  /\ interview' = interview /\ answers' = answers
  /\ finalResults' = finalResults

\* no document and no request in flight belongs to another user
OnlyOwner ==
  /\ \A a \in BagToSet(answers) : a.userId = Owner
  /\ \A f \in BagToSet(finalResults) : f.userId = Owner
  /\ \A r \in Slots : InFlight(r) => reqs[r].user = Owner

\* the users who do not own the session
Others == Users \ {Owner}

\* C30: a startSession, completeSession, submitAnswer, submitAll or
\* generateResult request of a user who does not own the session is answered
\* NotFound and changes nothing, and no Answer or FinalResult is created
\* under another user's session.
C30_NonOwnerIsNotFound ==
  /\ [][\A r \in Slots, user \in Others :
          /\ (StartSession(r, user) \/ CompleteSession(r, user)
                \/ GenerateResult(r, user))
             => response'.code = "NotFound404" /\ NothingDone(r)
          /\ \A text \in TextInputs :
               /\ \A qn \in QuestionInputs :
                    SubmitAnswer(r, user, qn, text)
                    => response'.code = "NotFound404" /\ NothingDone(r)
               /\ \A batch \in BatchInputs :
                    SubmitAll(r, user, batch, text)
                    => response'.code = "NotFound404" /\ NothingDone(r)]_vars
  /\ []OnlyOwner

\* the answer to a submission of another user: NotFound, or the validation
\* error when the text is not 10 to 5000 characters long
RefusedSubmission(text) ==
  IF text.len < 10 \/ text.len > 5000
    THEN response'.code = "Validation400"
  ELSE response'.code = "NotFound404"

\* C30 as it holds: a request of a user who does not own the session is
\* answered NotFound, or with the validation error when its body is not
\* valid, and changes nothing; no Answer or FinalResult is created under
\* another user's session.
C30_NonOwnerIsRefused ==
  /\ [][\A r \in Slots, user \in Others :
          /\ (StartSession(r, user) \/ CompleteSession(r, user)
                \/ GenerateResult(r, user))
             => response'.code = "NotFound404" /\ NothingDone(r)
          /\ \A text \in TextInputs :
               /\ \A qn \in QuestionInputs :
                    SubmitAnswer(r, user, qn, text)
                    => RefusedSubmission(text) /\ NothingDone(r)
               /\ \A batch \in BatchInputs :
                    SubmitAll(r, user, batch, text)
                    => RefusedSubmission(text) /\ NothingDone(r)]_vars
  /\ []OnlyOwner

\* C30 witness: generateResult has been answered NotFound on a completed
\* session with an answer and without a result, which only a request of
\* another user is
C30_Witness ==
  /\ response = [op |-> "generate", code |-> "NotFound404"]
  /\ interview.status = "completed"
  /\ answers # EmptyBag /\ finalResults = EmptyBag
  /\ OnlyOwner

====
